---- MODULE Spec2Model ----
(***************************************************************************)
(* Model of the ASCII-art converter (src/src/converter.py, constants.py). *)
(*                                                                         *)
(* Text is a sequence of one-character strings.  The escape character     *)
(* \033 is the element "ESC", a newline is "\n", and the four block        *)
(* glyphs of the "blocks" palettes and the grave accent of the "standard"  *)
(* palette are named by their code points.                                 *)
(* Python floats are modelled by exact rational arithmetic; where the      *)
(* IEEE-754 double result differs from the exact one inside the model's    *)
(* ranges, the difference is tabulated (QuantShort, NearestShort).         *)
(* An image is a record [mode, w, h, px] with px in row-major order, an    *)
(* RGB pixel a triple <<r, g, b>> and an L pixel an integer, 0..255.       *)
(***************************************************************************)
EXTENDS Integers, Sequences, FiniteSets, TLC

VARIABLES
  conv,        \* the AsciiConverter instance, NoConverter before __init__
  pc,          \* position of the caller / of convert_image
  path,        \* image_path of the current convert_image call
  image,       \* the local `image` of convert_image
  color_data,  \* the local `color_data` of convert_image
  ascii_art,   \* the text convert_image returned
  calls,       \* the private methods the current call has invoked, in order
  raised,      \* the exception that ended the last call, NoError if none
  rendered,    \* what render_to_image drew
  ncalls,      \* convert_image calls made so far
  arg          \* the argument of a method applied on its own

vars == <<conv, pc, path, image, color_data, ascii_art, calls, raised,
          rendered, ncalls, arg>>

(***************************************************************************)
(* Bounds of the model.                                                    *)
(***************************************************************************)
MaxSrc == 4
MaxWidth == 5
MaxCalls == 2

(***************************************************************************)
(* constants.py                                                            *)
(***************************************************************************)
DEFAULT_WIDTH == 100
DEFAULT_CHAR_SET == "simple"
\* 0.5, as the fraction <<numerator, denominator>>
ASPECT_RATIO_CORRECTION == <<1, 2>>

Simple == <<"@", "%", "#", "*", "+", "=", "-", ":", ".", " ">>
Standard ==
  <<"$", "@", "B", "%", "8", "&", "W", "M", "#", "*", "o", "a", "h", "k",
    "b", "d", "p", "q", "w", "m", "Z", "O", "0", "Q", "L", "C", "J", "U",
    "Y", "X", "z", "c", "v", "u", "n", "x", "r", "j", "f", "t", "/", "\\",
    "|", "(", ")", "1", "{", "}", "[", "]", "?", "-", "_", "+", "~", "<",
    ">", "i", "!", "l", "I", ";", ":", ",", "\"", "^", "U0060", "'", ".", " ">>
Blocks == <<"U2588", "U2593", "U2592", "U2591", " ">>
BlocksSimple ==
  <<"U2588", "U2593", "U2592", "U2591", "*", "+", "=", "-", ":", ".", " ">>
\* The two-glyph palette "@ " of the end-to-end scenarios.  constants.py
\* does not ship it: CHAR_SETS is a module-level dict and the scenarios
\* register it under the name "two" before constructing the converter.
ScenarioPalette == <<"@", " ">>

CHAR_SETS ==
  [n \in {"simple", "standard", "detailed", "blocks", "blocks-simple", "two"} |->
     CASE n = "simple" -> Simple
       [] n = "standard" -> Standard
       [] n = "detailed" -> Simple
       [] n = "blocks" -> Blocks
       [] n = "blocks-simple" -> BlocksSimple
       [] n = "two" -> ScenarioPalette]

(***************************************************************************)
(* Arithmetic helpers.                                                     *)
(***************************************************************************)
Max(a, b) == IF a >= b THEN a ELSE b
Min(a, b) == IF a <= b THEN a ELSE b

\* Python int(n / d) for d > 0: truncation toward zero.
Trunc(n, d) == IF n >= 0 THEN n \div d ELSE -((-n) \div d)

\* Python round(n / d) for n >= 0, d > 0: nearest integer, ties to even.
RoundHalfEven(n, d) ==
  LET q == n \div d
      r == n % d
  IN IF 2 * r < d THEN q
     ELSE IF 2 * r > d THEN q + 1
     ELSE IF q % 2 = 0 THEN q ELSE q + 1

Clamp255(v) == Max(0, Min(255, v))

SetMin(S) == CHOOSE m \in S : \A s \in S : m <= s
SetMax(S) == CHOOSE m \in S : \A s \in S : m >= s

Range(s) == {s[i] : i \in DOMAIN s}

RECURSIVE Concat(_)
Concat(ss) == IF ss = <<>> THEN <<>> ELSE Head(ss) \o Concat(Tail(ss))

\* '\n'.join(rows)
RECURSIVE JoinLines(_)
JoinLines(rows) ==
  IF rows = <<>> THEN <<>>
  ELSE IF Len(rows) = 1 THEN rows[1]
  ELSE rows[1] \o <<"\n">> \o JoinLines(Tail(rows))

DigitChar(d) == SubSeq(<<"0", "1", "2", "3", "4", "5", "6", "7", "8", "9">>, d + 1, d + 1)

\* str(n) for n >= 0, as a sequence of digit characters
RECURSIVE Decimal(_)
Decimal(n) == IF n < 10 THEN DigitChar(n) ELSE Decimal(n \div 10) \o DigitChar(n % 10)

(***************************************************************************)
(* The imaging library, as far as converter.py calls it.                   *)
(***************************************************************************)
NoImage == [mode |-> "none", w |-> 0, h |-> 0, px |-> <<>>]

\* pixel (x, y), zero-based
Pixel(img, x, y) == img.px[y * img.w + x + 1]

\* Image.resize(..., NEAREST) samples the source at the centre of each
\* output pixel, floor((x + 0.5) * s / n), stepping a double accumulator.
\* NearestShort lists the <<s, n, x>> with s <= 8, n <= 12 where the
\* accumulated double falls just below the exact integer coordinate.
NearestShort ==
  { <<2, 7, 3>>, <<4, 6, 4>>, <<4, 7, 3>>, <<4, 10, 7>>, <<6, 9, 4>>,
    <<6, 11, 5>>, <<8, 6, 4>>, <<8, 7, 3>>, <<8, 10, 7>>, <<8, 12, 4>> }

\* sampling at the top-left corner of each output pixel, floor(x * s / n)
NearestIndexCorner(s, n, x) == (x * s) \div n

NearestIndex(s, n, x) ==
  (((2 * x + 1) * s) \div (2 * n)) - (IF <<s, n, x>> \in NearestShort THEN 1 ELSE 0)

\* Image.resize raises ValueError ("height and width must be > 0")
ResizeRaises(W, H) == W < 1 \/ H < 1

ImageResize(img, W, H) ==
  [mode |-> img.mode, w |-> W, h |-> H,
   px |-> [k \in 1..(W * H) |->
             Pixel(img, NearestIndex(img.w, W, (k - 1) % W),
                        NearestIndex(img.h, H, (k - 1) \div W))]]

\* ITU-R 601-2 luma as the library computes it in fixed point
Luma(p) == (p[1] * 19595 + p[2] * 38470 + p[3] * 7471 + 32768) \div 65536

\* image.convert('L')
ConvertL(img) ==
  IF img.mode = "L" THEN img
  ELSE [img EXCEPT !.mode = "L", !.px = [k \in DOMAIN img.px |-> Luma(img.px[k])]]

\* image.convert('RGB')
ConvertRGB(img) ==
  IF img.mode = "RGB" THEN img
  ELSE [img EXCEPT !.mode = "RGB",
                   !.px = [k \in DOMAIN img.px |-> <<img.px[k], img.px[k], img.px[k]>>]]

\* ImageOps.equalize on an L image: the lookup table built from the
\* image's own histogram; the identity when at most one level is present
\* or when step = (pixels - count of the top level) // 255 is 0.
EqualizeStep(px) ==
  IF Cardinality(Range(px)) <= 1 THEN 0
  ELSE LET top == SetMax(Range(px))
           last == Cardinality({k \in DOMAIN px : px[k] = top})
       IN (Len(px) - last) \div 255

EqualizeLut(px, i) ==
  LET step == EqualizeStep(px)
  IN IF step = 0 THEN i
     ELSE Clamp255(((step \div 2) + Cardinality({k \in DOMAIN px : px[k] < i})) \div step)

Equalize(img) == [img EXCEPT !.px = [k \in DOMAIN img.px |-> EqualizeLut(img.px, img.px[k])]]

\* ImageEnhance.Brightness(image).enhance(1.2): blend(black, image, 1.2),
\* clipped at 255 and truncated
BrightenChannel(c) == Min(255, (c * 6) \div 5)

EnhanceBrightness(img) ==
  [img EXCEPT !.px = [k \in DOMAIN img.px |->
     IF img.mode = "L" THEN BrightenChannel(img.px[k])
     ELSE <<BrightenChannel(img.px[k][1]), BrightenChannel(img.px[k][2]),
            BrightenChannel(img.px[k][3])>>]]

\* ImageFilter.SMOOTH: kernel (1,1,1, 1,5,1, 1,1,1) / 13, rounded; the
\* one-pixel border is copied
Chan(img, x, y, ch) == IF img.mode = "L" THEN Pixel(img, x, y) ELSE Pixel(img, x, y)[ch]

SmoothChannel(img, x, y, ch) ==
  IF x = 0 \/ y = 0 \/ x = img.w - 1 \/ y = img.h - 1 THEN Chan(img, x, y, ch)
  ELSE LET sum == Chan(img, x - 1, y - 1, ch) + Chan(img, x, y - 1, ch) + Chan(img, x + 1, y - 1, ch)
                + Chan(img, x - 1, y, ch) + 5 * Chan(img, x, y, ch) + Chan(img, x + 1, y, ch)
                + Chan(img, x - 1, y + 1, ch) + Chan(img, x, y + 1, ch) + Chan(img, x + 1, y + 1, ch)
       IN Clamp255((2 * sum + 13) \div 26)

\* ImageEnhance.Sharpness(image).enhance(1.5): blend(smooth, image, 1.5)
\* = smooth + 1.5 * (image - smooth), clipped to 0..255 and truncated
SharpenChannel(img, x, y, ch) ==
  LET twice == 3 * Chan(img, x, y, ch) - SmoothChannel(img, x, y, ch)
  IN IF twice <= 0 THEN 0 ELSE IF twice >= 510 THEN 255 ELSE twice \div 2

EnhanceSharpness(img) ==
  [img EXCEPT !.px = [k \in DOMAIN img.px |->
     LET x == (k - 1) % img.w
         y == (k - 1) \div img.w
     IN IF img.mode = "L" THEN SharpenChannel(img, x, y, 1)
        ELSE <<SharpenChannel(img, x, y, 1), SharpenChannel(img, x, y, 2),
               SharpenChannel(img, x, y, 3)>>]]

(***************************************************************************)
(* AsciiConverter: the pure parts of its methods.                          *)
(***************************************************************************)
NoColor == [some |-> FALSE, data |-> <<>>]
SomeColor(d) == [some |-> TRUE, data |-> d]

\* _resize_image, lines 125-145: the height handed to image.resize
\* the uncorrected height rounded to nearest instead of truncated
uncorrected_height_rounded(self, img) == RoundHalfEven(self.width * img.h, img.w)

uncorrected_height(self, img) == Trunc(self.width * img.h, img.w)

\* the 40% floor without its lower bound of one row
min_height_unbounded(uncorrected) == Trunc(uncorrected * 4, 10)

min_height(uncorrected) == Max(1, Trunc(uncorrected * 4, 10))

\* the height after the 40% clamp (lines 132-138)
clamped_height(self, img) ==
  LET c == self.aspect_ratio_correction
      corrected == Trunc(self.width * img.h * c[1], img.w * c[2])
      floor40 == min_height(uncorrected_height(self, img))
  IN IF corrected < floor40 THEN floor40 ELSE corrected

\* the override taken only below a ratio of 0.2
compression_extreme_at_20(height, uncorrected) ==
  uncorrected > 0 /\ 10 * height < 2 * uncorrected

\* compression_ratio < 0.3 (lines 142-143); the ratio is 1.0 when the
\* uncorrected height is not positive
compression_extreme(height, uncorrected) ==
  uncorrected > 0 /\ 10 * height < 3 * uncorrected

\* the height without the correction for the shape of a character cell
new_height_uncorrected(self, img) == Max(1, Trunc(self.width * img.h, img.w))

new_height(self, img) ==
  LET u == uncorrected_height(self, img)
      h1 == clamped_height(self, img)
  IN IF compression_extreme(h1, u) THEN Trunc(u * 5, 10) ELSE h1

_resize_image(self, img) == ImageResize(img, self.width, new_height(self, img))

\* _capture_color_data: the flat list of RGB triples
_capture_color_data(img) == ConvertRGB(img).px

\* _boost_saturation for one sample: RGB -> HSV, s := min(1, s * multiplier),
\* HSV -> RGB, round, clamp.  With M, m the largest and smallest channel the
\* boosted channel is exactly M - multiplier * (M - c) while the saturation
\* stays below 1 and M * (c - m) / (M - m) once it is clamped to 1.
boost_channel(c, M, m, multiplier) ==
  IF M = m THEN c
  ELSE IF multiplier * (M - m) <= M THEN Clamp255(M - multiplier * (M - c))
  ELSE Clamp255(RoundHalfEven(M * (c - m), M - m))

boost_sample(p, multiplier) ==
  LET M == Max(p[1], Max(p[2], p[3]))
      m == Min(p[1], Min(p[2], p[3]))
  IN <<boost_channel(p[1], M, m, multiplier), boost_channel(p[2], M, m, multiplier),
       boost_channel(p[3], M, m, multiplier)>>

_boost_saturation(data, multiplier) == [k \in DOMAIN data |-> boost_sample(data[k], multiplier)]

\* the level rounded to nearest instead of truncated
ansi_level_rounded(c) == RoundHalfEven(c * 5, 255)

\* _rgb_to_ansi, lines 233-236
ansi_level(c) == Trunc(c * 5, 255)

ansi_code(r, g, b) == 16 + 36 * ansi_level(r) + 6 * ansi_level(g) + ansi_level(b)

_rgb_to_ansi(r, g, b) ==
  <<"ESC", "[", "3", "8", ";", "5", ";">> \o Decimal(ansi_code(r, g, b)) \o <<"m">>

reset_code == <<"ESC", "[", "0", "m">>

\* _convert_to_grayscale
_convert_to_grayscale(img) == Equalize(ConvertL(img))

\* int(normalized * (num_chars - 1)) in doubles is one below the exact
\* floor for these ratios when num_chars - 1 = 69 (the standard palette)
QuantShort(d, range, n1) ==
  /\ n1 = 69
  /\ \/ 23 * d = 21 * range
     \/ 69 * d = 11 * range
     \/ 69 * d = 22 * range
     \/ 69 * d = 44 * range

\* lines 291-295
brightness_range(pixels) ==
  LET r == SetMax(Range(pixels)) - SetMin(Range(pixels))
  IN IF r = 0 THEN 1 ELSE r

\* the index taken on the fixed scale 0..255, not on the field's own range
char_index_absolute(brightness, min_brightness, range, num_chars) ==
  Trunc(brightness * (num_chars - 1), 255)

\* lines 309 and 314
char_index(brightness, min_brightness, range, num_chars) ==
  Trunc((brightness - min_brightness) * (num_chars - 1), range)
    - (IF QuantShort(brightness - min_brightness, range, num_chars - 1) THEN 1 ELSE 0)

\* the brightness list _pixels_to_ascii works on (lines 279-285)
brightness_field(img) == ConvertL(img).px

\* min() of an empty list raises ValueError
PixelsRaises(img) == Len(img.px) = 0

\* one cell of the output: the glyph, wrapped in colour codes when
\* color_data is given and long enough (lines 305-326); k is pixel_index + 1
cell(self, pixels, colors, k) ==
  LET lo == SetMin(Range(pixels))
      ch == self.characters[char_index(pixels[k], lo, brightness_range(pixels),
                                       Len(self.characters)) + 1]
  IN IF colors.some /\ Len(colors.data) > 0 /\ k - 1 < Len(colors.data)
     THEN _rgb_to_ansi(colors.data[k][1], colors.data[k][2], colors.data[k][3])
            \o <<ch>> \o reset_code
     ELSE <<ch>>

_pixels_to_ascii(self, img, colors) ==
  LET pixels == brightness_field(img)
      row(y) == Concat([x \in 1..img.w |-> cell(self, pixels, colors, y * img.w + x)])
  IN JoinLines([y \in 1..img.h |-> row(y - 1)])

(***************************************************************************)
(* render_to_image                                                         *)
(***************************************************************************)
\* the class without the separator: [0-9]*
EscapeBodyDigits == {"0", "1", "2", "3", "4", "5", "6", "7", "8", "9"}

EscapeBody == {"0", "1", "2", "3", "4", "5", "6", "7", "8", "9", ";"}

\* the index of the "m" that ends [0-9;]*m starting at s[j], 0 if none
RECURSIVE EscapeEnd(_, _)
EscapeEnd(s, j) ==
  IF j > Len(s) THEN 0
  ELSE IF s[j] \in EscapeBody THEN EscapeEnd(s, j + 1)
  ELSE IF s[j] = "m" THEN j
  ELSE 0

\* re.compile(r'\033\[[0-9;]*m').sub('', s)
RECURSIVE StripAnsi(_)
StripAnsi(s) ==
  IF s = <<>> THEN <<>>
  ELSE LET e == IF Len(s) >= 2 /\ s[1] = "ESC" /\ s[2] = "[" THEN EscapeEnd(s, 3) ELSE 0
       IN IF e > 0 THEN StripAnsi(SubSeq(s, e + 1, Len(s)))
          ELSE <<s[1]>> \o StripAnsi(Tail(s))

\* s.split('\n')
RECURSIVE SplitLines(_)
SplitLines(s) ==
  IF \A i \in DOMAIN s : s[i] # "\n" THEN <<s>>
  ELSE LET i == SetMin({j \in DOMAIN s : s[j] = "\n"})
       IN <<SubSeq(s, 1, i - 1)>> \o SplitLines(SubSeq(s, i + 1, Len(s)))

Black == <<0, 0, 0>>
NoRender == [font_size |-> 0, w |-> 0, h |-> 0, draws |-> <<>>]

\* number of glyphs on the lines before line i (pixel_index at its start)
RECURSIVE GlyphsBefore(_, _)
GlyphsBefore(lines, i) == IF i <= 1 THEN 0 ELSE GlyphsBefore(lines, i - 1) + Len(lines[i - 1])

\* int(n * (font_size * k)) in doubles, k = 0.6 or 1.2, is one below the
\* exact floor for these operands (font sizes up to 24, n up to 12)
CanvasShort(n, font_size) ==
  IF font_size \in {9, 18} /\ n \in {5, 10} THEN 1 ELSE 0

\* lines 353-408: the canvas size and the draw.text calls, in order
render_to_image(text, font_size, colors) ==
  LET lines == SplitLines(StripAnsi(text))
      char_width_px == Trunc(font_size * 6, 10)
      char_height_px == Trunc(font_size * 12, 10)
      longest == SetMax({Len(lines[i]) : i \in DOMAIN lines})
      glyph(i, c) ==
        LET pixel_index == GlyphsBefore(lines, i) + c - 1
        IN [x |-> (c - 1) * char_width_px, y |-> (i - 1) * char_height_px,
            text |-> <<lines[i][c]>>,
            fill |-> IF pixel_index < Len(colors.data) THEN colors.data[pixel_index + 1]
                     ELSE Black]
  IN [font_size |-> font_size,
      w |-> Trunc(longest * font_size * 6, 10) - CanvasShort(longest, font_size),
      h |-> Trunc(Len(lines) * font_size * 12, 10) - CanvasShort(Len(lines), font_size),
      draws |-> IF colors.some /\ Len(colors.data) > 0
                THEN Concat([i \in DOMAIN lines |-> [c \in DOMAIN lines[i] |-> glyph(i, c)]])
                ELSE [i \in DOMAIN lines |->
                        [x |-> 0, y |-> (i - 1) * char_height_px, text |-> lines[i],
                         fill |-> Black]]]

(***************************************************************************)
(* The inputs of the model.                                                *)
(***************************************************************************)
White == <<255, 255, 255>>

\* the image files on disk; a path outside the domain does not exist
Files ==
  [f \in {"white.png", "black.png", "checker.png", "color.png"} |->
     CASE f = "white.png" ->
            [mode |-> "RGB", w |-> 2, h |-> 2, px |-> <<White, White, White, White>>]
       [] f = "black.png" ->
            [mode |-> "RGB", w |-> 2, h |-> 2, px |-> <<Black, Black, Black, Black>>]
       [] f = "checker.png" ->
            [mode |-> "RGB", w |-> 2, h |-> 2, px |-> <<Black, White, White, Black>>]
       [] f = "color.png" ->
            [mode |-> "RGB", w |-> 2, h |-> 4,
             px |-> << <<200, 120, 40>>, <<30, 60, 250>>, <<10, 200, 30>>, <<90, 100, 110>>,
                       <<255, 0, 0>>, <<128, 128, 128>>, <<60, 20, 80>>, <<240, 230, 10>> >>]]

Paths == DOMAIN Files \cup {"missing.png"}
CharSetNames == DOMAIN CHAR_SETS \cup {"unknown"}
MaxConvWidth == 3
ConvWidths == (-1)..MaxConvWidth
FontSizes == {8, 10}

(***************************************************************************)
(* The state machine: one converter, constructed once, converting and      *)
(* rendering images one call after the other.                              *)
(***************************************************************************)
NoConverter ==
  [width |-> 0, use_color |-> FALSE, char_set_name |-> "", characters |-> <<>>,
   aspect_ratio_correction |-> <<0, 1>>, has_last_color_data |-> FALSE,
   _last_color_data |-> NoColor, constructed |-> FALSE]
NoError == [kind |-> "none", at |-> "none"]
NoArg == <<>>

Init ==
  /\ conv = NoConverter
  /\ pc = "start"
  /\ path = ""
  /\ image = NoImage
  /\ color_data = NoColor
  /\ ascii_art = <<>>
  /\ calls = <<>>
  /\ raised = NoError
  /\ rendered = NoRender
  /\ ncalls = 0
  /\ arg = NoArg

\* the instance __init__ leaves behind (lines 25-36)
NewConverter(width, char_set, use_color) ==
  [width |-> width, use_color |-> use_color, char_set_name |-> char_set,
   characters |-> CHAR_SETS[char_set],
   aspect_ratio_correction |-> ASPECT_RATIO_CORRECTION,
   has_last_color_data |-> FALSE, _last_color_data |-> NoColor, constructed |-> TRUE]

\* AsciiConverter(width, char_set, use_color)
__init__(width, char_set, use_color) ==
  /\ pc = "start"
  /\ IF char_set \notin DOMAIN CHAR_SETS
     THEN /\ raised' = [kind |-> "ValueError", at |-> "__init__"]
          /\ pc' = "init_failed"
          /\ conv' = conv
     ELSE /\ conv' = NewConverter(width, char_set, use_color)
          /\ pc' = "ready"
          /\ raised' = raised
  /\ UNCHANGED <<path, image, color_data, ascii_art, calls, rendered, ncalls, arg>>

Idle == pc \in {"ready", "returned", "failed", "rendered"}

\* convert_image(image_path), line 50: a new call starts and loads the image
_load_image(image_path) ==
  /\ Idle
  /\ ncalls < MaxCalls
  /\ ncalls' = ncalls + 1
  /\ path' = image_path
  /\ calls' = <<"_load_image">>
  /\ color_data' = NoColor
  /\ ascii_art' = <<>>
  /\ rendered' = NoRender
  /\ IF image_path \in DOMAIN Files
     THEN /\ image' = Files[image_path]
          /\ pc' = "loaded"
          /\ raised' = NoError
     ELSE /\ image' = NoImage
          /\ pc' = "failed"
          /\ raised' = [kind |-> "FileNotFoundError", at |-> "_load_image"]
  /\ UNCHANGED <<conv, arg>>

\* line 54
ResizeStep ==
  /\ pc = "loaded"
  /\ calls' = Append(calls, "_resize_image")
  /\ IF ResizeRaises(conv.width, new_height(conv, image))
     THEN /\ pc' = "failed"
          /\ raised' = [kind |-> "ValueError", at |-> "_resize_image"]
          /\ image' = image
     ELSE /\ pc' = "resized"
          /\ image' = _resize_image(conv, image)
          /\ raised' = raised
  /\ UNCHANGED <<conv, path, color_data, ascii_art, rendered, ncalls, arg>>

\* lines 61-75: colour enabled
ColorStep ==
  /\ pc = "resized"
  /\ conv.use_color
  /\ LET sharpened_image == EnhanceSharpness(EnhanceBrightness(image))
     IN /\ color_data' = SomeColor(_boost_saturation(_capture_color_data(sharpened_image), 3))
        /\ image' = sharpened_image
  /\ calls' = calls \o <<"_capture_color_data", "_boost_saturation">>
  /\ pc' = "mapped"
  /\ UNCHANGED <<conv, path, ascii_art, raised, rendered, ncalls, arg>>

\* lines 76-78: colour disabled
GrayscaleStep ==
  /\ pc = "resized"
  /\ ~conv.use_color
  /\ image' = _convert_to_grayscale(image)
  /\ calls' = Append(calls, "_convert_to_grayscale")
  /\ pc' = "mapped"
  /\ UNCHANGED <<conv, path, color_data, ascii_art, raised, rendered, ncalls, arg>>

\* line 83
QuantizeStep ==
  /\ pc = "mapped"
  /\ calls' = Append(calls, "_pixels_to_ascii")
  /\ IF PixelsRaises(image)
     THEN /\ pc' = "failed"
          /\ raised' = [kind |-> "ValueError", at |-> "_pixels_to_ascii"]
          /\ ascii_art' = ascii_art
     ELSE /\ pc' = "converted"
          /\ ascii_art' = _pixels_to_ascii(conv, image, color_data)
          /\ raised' = raised
  /\ UNCHANGED <<conv, path, image, color_data, rendered, ncalls, arg>>

\* the converter left as it was: nothing retained
store_nothing(self, colors) == self

\* the field stored by the first call only, later calls keeping it
store_first_only(self, colors) ==
  IF self.has_last_color_data THEN self
  ELSE [self EXCEPT !.has_last_color_data = TRUE, !._last_color_data = colors]

\* line 86
store_color_data(self, colors) ==
  [self EXCEPT !.has_last_color_data = TRUE, !._last_color_data = colors]

\* lines 86-88
ReturnStep ==
  /\ pc = "converted"
  /\ conv' = store_color_data(conv, color_data)
  /\ pc' = "returned"
  /\ UNCHANGED <<path, image, color_data, ascii_art, calls, raised, rendered, ncalls, arg>>

\* main.py line 149: getattr(converter, '_last_color_data', None) if args.color else None
retained_color_data(self) ==
  IF self.use_color /\ self.has_last_color_data THEN self._last_color_data ELSE NoColor

\* main.py lines 149-152: render the text the call returned
RenderStep(font_size) ==
  /\ pc = "returned"
  /\ rendered' = render_to_image(ascii_art, font_size, retained_color_data(conv))
  /\ pc' = "rendered"
  /\ UNCHANGED <<conv, path, image, color_data, ascii_art, calls, raised, ncalls, arg>>

Next ==
  \/ \E width \in ConvWidths, char_set \in CharSetNames, use_color \in BOOLEAN :
       __init__(width, char_set, use_color)
  \/ \E image_path \in Paths : _load_image(image_path)
  \/ ResizeStep
  \/ ColorStep
  \/ GrayscaleStep
  \/ QuantizeStep
  \/ ReturnStep
  \/ \E font_size \in FontSizes : RenderStep(font_size)

Spec == Init /\ [][Next]_vars

(***************************************************************************)
(* The methods applied on their own, to inputs drawn from bounded sets.    *)
(* arg holds the argument, pc is "call" before and "done" after.           *)
(***************************************************************************)
Unused ==
  /\ path = ""
  /\ color_data = NoColor
  /\ calls = <<>>
  /\ raised = NoError
  /\ rendered = NoRender
  /\ ncalls = 0

\* _resize_image on every source size, target width and correction
Corrections == { <<1, 10>>, <<1, 4>>, <<2, 5>>, <<1, 2>>, <<1, 1>> }

SizedImage(w, h) ==
  [mode |-> "L", w |-> w, h |-> h, px |-> [k \in 1..(w * h) |-> (37 * k) % 256]]

InitResize ==
  /\ \E width \in 1..MaxWidth, c \in Corrections :
       conv = [NewConverter(width, DEFAULT_CHAR_SET, FALSE) EXCEPT !.aspect_ratio_correction = c]
  /\ \E w \in 1..MaxSrc, h \in 1..MaxSrc : arg = SizedImage(w, h)
  /\ pc = "call"
  /\ image = NoImage
  /\ ascii_art = <<>>
  /\ Unused

ResizeCall ==
  /\ pc = "call"
  /\ IF ResizeRaises(conv.width, new_height(conv, arg))
     THEN /\ pc' = "failed"
          /\ raised' = [kind |-> "ValueError", at |-> "_resize_image"]
          /\ image' = image
     ELSE /\ pc' = "done"
          /\ image' = _resize_image(conv, arg)
          /\ raised' = raised
  /\ UNCHANGED <<conv, path, color_data, ascii_art, calls, rendered, ncalls, arg>>

SpecResize == InitResize /\ [][ResizeCall]_vars

\* _rgb_to_ansi on every channel value, the other two channels at the
\* edges of the six levels
LevelEdges == {0, 50, 51, 203, 204, 255}
Channel == 0..255

InitAnsi ==
  /\ arg \in (Channel \X LevelEdges \X LevelEdges) \cup (LevelEdges \X Channel \X LevelEdges)
               \cup (LevelEdges \X LevelEdges \X Channel)
  /\ conv = NewConverter(DEFAULT_WIDTH, DEFAULT_CHAR_SET, TRUE)
  /\ pc = "call"
  /\ image = NoImage
  /\ ascii_art = <<>>
  /\ Unused

AnsiCall ==
  /\ pc = "call"
  /\ ascii_art' = _rgb_to_ansi(arg[1], arg[2], arg[3])
  /\ pc' = "done"
  /\ UNCHANGED <<conv, path, image, color_data, calls, raised, rendered, ncalls, arg>>

SpecAnsi == InitAnsi /\ [][AnsiCall]_vars

\* _pixels_to_ascii on one-row brightness fields, with every palette
MaxField == 3
Levels == {0, 1, 11, 21, 23, 69, 127, 128, 254, 255}
Palettes == {CHAR_SETS[n] : n \in DOMAIN CHAR_SETS} \cup { <<"#">> }

InitQuant ==
  /\ \E n \in 1..MaxField : \E px \in [1..n -> Levels] :
       arg = [mode |-> "L", w |-> n, h |-> 1, px |-> px]
  /\ \E glyphs \in Palettes :
       conv = [NewConverter(DEFAULT_WIDTH, DEFAULT_CHAR_SET, FALSE) EXCEPT !.characters = glyphs]
  /\ pc = "call"
  /\ image = NoImage
  /\ ascii_art = <<>>
  /\ Unused

QuantCall ==
  /\ pc = "call"
  /\ ascii_art' = _pixels_to_ascii(conv, arg, NoColor)
  /\ pc' = "done"
  /\ UNCHANGED <<conv, path, image, color_data, calls, raised, rendered, ncalls, arg>>

SpecQuant == InitQuant /\ [][QuantCall]_vars

(***************************************************************************)
(* Properties of _resize_image (under SpecResize).                         *)
(***************************************************************************)
\* the integer q with q <= n / d < q + 1, for n >= 0 and d > 0
FloorOf(n, d) == CHOOSE q \in 0..n : q * d <= n /\ n < (q + 1) * d

\* the first clamp raises the corrected height / the second overrides it
MinClampFires(self, img) ==
  FloorOf(self.width * img.h * self.aspect_ratio_correction[1],
          img.w * self.aspect_ratio_correction[2])
    < Max(1, FloorOf(4 * FloorOf(self.width * img.h, img.w), 10))

OverrideFires(self, img) ==
  LET u == FloorOf(self.width * img.h, img.w)
      c == FloorOf(self.width * img.h * self.aspect_ratio_correction[1],
                   img.w * self.aspect_ratio_correction[2])
  IN u > 0 /\ 10 * Max(c, Max(1, FloorOf(4 * u, 10))) < 3 * u

\* C1: for every source size >= 1x1 and every positive target width,
\* _resize_image returns an image (it does not fail) whose width is exactly
\* the target width and whose height is at least 1.
C1_WidthExactHeightPositive ==
  pc # "call" =>
    /\ pc = "done"
    /\ image.w = conv.width
    /\ image.h >= 1
    /\ Len(image.px) = image.w * image.h

\* C1 witness: a call in which both height clamps fired
C1_BothClampsFired ==
  pc = "done" /\ MinClampFires(conv, arg) /\ OverrideFires(conv, arg)

\* the height of the written algorithm, every step rounded to nearest
RoundedHeight(self, img) ==
  LET c == self.aspect_ratio_correction
      trueHeight == RoundHalfEven(self.width * img.h, img.w)
      corrected == RoundHalfEven(self.width * img.h * c[1], img.w * c[2])
      minHeight == Max(1, RoundHalfEven(4 * trueHeight, 10))
      clamped == IF corrected < minHeight THEN minHeight ELSE corrected
  IN IF trueHeight > 0 /\ 10 * clamped < 3 * trueHeight
     THEN RoundHalfEven(5 * trueHeight, 10)
     ELSE clamped

\* the same algorithm with every step truncated
TruncatedHeight(self, img) ==
  LET c == self.aspect_ratio_correction
      trueHeight == FloorOf(self.width * img.h, img.w)
      corrected == FloorOf(self.width * img.h * c[1], img.w * c[2])
      minHeight == Max(1, FloorOf(4 * trueHeight, 10))
      clamped == IF corrected < minHeight THEN minHeight ELSE corrected
  IN IF trueHeight > 0 /\ 10 * clamped < 3 * trueHeight
     THEN FloorOf(5 * trueHeight, 10)
     ELSE clamped

\* C2 as stated: the height chosen by _resize_image equals the height of
\* the algorithm whose steps are round(...); stated here for the correction
\* the converter is constructed with.
C2_HeightIsRoundedAlgorithm ==
  (pc = "done" /\ conv.aspect_ratio_correction = ASPECT_RATIO_CORRECTION)
    => image.h = RoundedHeight(conv, arg)

\* C2 amended: the height chosen by _resize_image equals the height of the
\* same algorithm with every round(...) replaced by truncation toward zero.
C2_HeightIsTruncatedAlgorithm ==
  pc = "done" => image.h = TruncatedHeight(conv, arg)

\* C2 witness: a call where truncation and rounding give different heights
C2_TruncationDiffersFromRounding ==
  pc = "done" /\ image.h # RoundedHeight(conv, arg)

\* C3: the final height is at least 0.3 times the uncorrected height of
\* the same call, for every correction in (0, 1].
C3_CompressionFloor ==
  pc = "done" => 10 * image.h >= 3 * FloorOf(conv.width * arg.h, arg.w)

\* C3 witness: a call whose clamped height was below the floor, so that
\* the override was taken
C3_OverrideTaken ==
  pc = "done" /\ OverrideFires(conv, arg) /\ image.h = FloorOf(conv.width * arg.h, arg.w) \div 2

(***************************************************************************)
(* Properties of _pixels_to_ascii (under SpecQuant).                       *)
(***************************************************************************)
\* the position of a glyph in a palette, zero-based; 0 - 1 if absent
GlyphIndex(glyphs, ch) ==
  IF \E i \in DOMAIN glyphs : glyphs[i] = ch
  THEN (CHOOSE i \in DOMAIN glyphs : glyphs[i] = ch) - 1
  ELSE 0 - 1

\* the palette index of sample k, as _pixels_to_ascii computes it
SampleIndex(self, pixels, k) ==
  char_index(pixels[k], SetMin(Range(pixels)), brightness_range(pixels), Len(self.characters))

\* C4: for every brightness field with samples in 0..255 and every
\* non-empty palette, the index of every sample lies in 0..paletteLength-1,
\* the emitted glyph is the palette entry at that index, a brighter sample
\* never gets a lower index than a darker one, and the darkest sample gets
\* the densest glyph (index 0).
C4_IndexInRangeAndMonotone ==
  pc = "done" =>
    /\ Len(ascii_art) = Len(arg.px)
    /\ \A k \in DOMAIN arg.px :
         /\ SampleIndex(conv, arg.px, k) \in 0..(Len(conv.characters) - 1)
         /\ GlyphIndex(conv.characters, ascii_art[k]) = SampleIndex(conv, arg.px, k)
         /\ arg.px[k] = SetMin(Range(arg.px)) => ascii_art[k] = conv.characters[1]
    /\ \A i, j \in DOMAIN arg.px :
         arg.px[i] < arg.px[j] =>
           GlyphIndex(conv.characters, ascii_art[i]) <= GlyphIndex(conv.characters, ascii_art[j])

\* C4 witness: a field with three distinct levels quantized with the
\* 70-glyph palette, the brightest sample at the last index and the middle
\* one at an index where the double product falls below the exact one
C4_FullRangeUsed ==
  /\ pc = "done"
  /\ Len(conv.characters) = 70
  /\ Cardinality(Range(arg.px)) = 3
  /\ \E k \in DOMAIN arg.px : GlyphIndex(conv.characters, ascii_art[k]) = 69
  /\ \E k \in DOMAIN arg.px :
       QuantShort(arg.px[k] - SetMin(Range(arg.px)), brightness_range(arg.px), 69)

(***************************************************************************)
(* Properties of _rgb_to_ansi (under SpecAnsi).                            *)
(***************************************************************************)
DigitValue(ch) ==
  CHOOSE d \in 0..9 : <<ch>> = SubSeq(<<"0", "1", "2", "3", "4", "5", "6", "7", "8", "9">>, d + 1, d + 1)

\* the number a sequence of digit characters denotes
RECURSIVE ParseDecimal(_)
ParseDecimal(ds) ==
  IF ds = <<>> THEN 0
  ELSE 10 * ParseDecimal(SubSeq(ds, 1, Len(ds) - 1)) + DigitValue(ds[Len(ds)])

\* the colour code inside ESC [ 38 ; 5 ; <code> m
EmittedCode(seq) == ParseDecimal(SubSeq(seq, 8, Len(seq) - 1))

\* C7: for all r, g, b in 0..255 _rgb_to_ansi emits the foreground
\* sequence of the code 16 + 36*floor(5r/255) + 6*floor(5g/255) + floor(5b/255),
\* and the code lies in 16..231.
C7_AnsiCodeInCube ==
  pc = "done" =>
    /\ SubSeq(ascii_art, 1, 7) = <<"ESC", "[", "3", "8", ";", "5", ";">>
    /\ ascii_art[Len(ascii_art)] = "m"
    /\ EmittedCode(ascii_art) =
         16 + 36 * FloorOf(5 * arg[1], 255) + 6 * FloorOf(5 * arg[2], 255)
            + FloorOf(5 * arg[3], 255)
    /\ EmittedCode(ascii_art) \in 16..231

\* C7 witness: the last code of the cube is emitted for white and a
\* three-digit code for a channel strictly inside a level
C7_CubeCornerEmitted ==
  /\ pc = "done"
  /\ arg[1] \notin LevelEdges
  /\ arg[2] = 255 /\ arg[3] = 255
  /\ EmittedCode(ascii_art) = 16 + 36 * 3 + 30 + 5

(***************************************************************************)
(* Properties of convert_image and of the renderer (under Spec).           *)
(***************************************************************************)
\* a conversion of the file p has returned, with target width 2, the
\* palette "@ " and colour disabled
ScenarioReturned(p) ==
  /\ pc \in {"returned", "rendered"}
  /\ path = p
  /\ conv.width = 2
  /\ conv.characters = ScenarioPalette
  /\ ~conv.use_color

\* C5 as stated: the 2x2 white image gives two lines of two spaces.
C5_WhiteIsTwoLinesOfSpaces ==
  ScenarioReturned("white.png") => ascii_art = <<" ", " ", "\n", " ", " ">>

\* C5 amended: the 2x2 white image gives exactly one line, "@@": the
\* aspect correction halves the two rows to one and a uniform field
\* quantizes to palette index 0, the densest glyph.
C5_WhiteIsOneLineOfDense ==
  ScenarioReturned("white.png") => ascii_art = <<"@", "@">>

\* C5 witness: the white scenario has returned
C5_WhiteConverted == ScenarioReturned("white.png") /\ pc = "returned" /\ image.h = 1

\* C6 as stated: the 2x2 checkerboard gives the rows "@ " and " @".
C6_CheckerIsTwoRows ==
  ScenarioReturned("checker.png") => ascii_art = <<"@", " ", "\n", " ", "@">>

\* C6 amended: the 2x2 checkerboard gives exactly one row, " @": the
\* aspect correction leaves one row, sampled from the second source row
\* (white, black), each glyph at the column of the pixel it comes from.
C6_CheckerIsSecondRow ==
  ScenarioReturned("checker.png") => ascii_art = <<" ", "@">>

\* C6 witness: the checkerboard scenario has returned
C6_CheckerConverted ==
  ScenarioReturned("checker.png") /\ pc = "returned" /\ image.px = <<255, 0>>

\* C8 as stated: a converter whose width is not positive never gets as far
\* as the resize step, and no grid is produced for it.
C8_NonPositiveWidthRejectedUpfront ==
  (conv.constructed /\ conv.width <= 0) =>
    /\ \A i \in DOMAIN calls : calls[i] \notin {"_resize_image", "_convert_to_grayscale",
                                                "_pixels_to_ascii"}
    /\ ascii_art = <<>>

\* C9 as stated: the field handed to glyph quantization has passed through
\* the tone-mapping step (_convert_to_grayscale: luminance, then
\* equalization), with colour enabled as well as disabled.
C9_ToneMappedBeforeQuantize ==
  pc = "mapped" =>
    /\ image.mode = "L"
    /\ \E i \in DOMAIN calls : calls[i] = "_convert_to_grayscale"

\* the cells of a text: glyph and colour code (0 - 1 when uncoloured)
RECURSIVE ParseCells(_)
ParseCells(s) ==
  IF s = <<>> THEN <<>>
  ELSE IF s[1] = "\n" THEN ParseCells(Tail(s))
  ELSE IF s[1] = "ESC"
  THEN LET e == EscapeEnd(s, 3)
       IN <<[code |-> ParseDecimal(SubSeq(s, 8, e - 1)), glyph |-> s[e + 1],
             reset |-> SubSeq(s, e + 2, e + 5)]>>
            \o ParseCells(SubSeq(s, e + 6, Len(s)))
  ELSE <<[code |-> 0 - 1, glyph |-> s[1], reset |-> <<>>]>> \o ParseCells(Tail(s))

CubeCode(p) ==
  16 + 36 * FloorOf(5 * p[1], 255) + 6 * FloorOf(5 * p[2], 255) + FloorOf(5 * p[3], 255)

\* C10: once a call has returned, _last_color_data is None when colour is
\* disabled, and otherwise is the saturation-boosted field of that call:
\* one sample per glyph, sample k giving the colour code of glyph k of the
\* returned text; the renderer, given the text and the retained field,
\* draws the glyph of row r, column c at its cell with the sample of
\* pixel (r, c).
C10_RetainedFieldColoursText ==
  pc \in {"returned", "rendered"} =>
    /\ conv.has_last_color_data
    /\ conv._last_color_data.some = conv.use_color
    /\ ~conv.use_color => conv._last_color_data = NoColor
    /\ conv.use_color =>
         LET data == conv._last_color_data.data
             cells == ParseCells(ascii_art)
         IN /\ data = _boost_saturation(_capture_color_data(image), 3)
            /\ Len(data) = image.w * image.h
            /\ Len(cells) = Len(data)
            /\ \A k \in DOMAIN cells :
                 cells[k].code = CubeCode(data[k]) /\ cells[k].reset = reset_code
            /\ pc = "rendered" =>
                 /\ Len(rendered.draws) = Len(data)
                 /\ \A r \in 0..(image.h - 1), c \in 0..(image.w - 1) :
                      LET d == rendered.draws[r * image.w + c + 1]
                      IN /\ d.fill = data[r * image.w + c + 1]
                         /\ d.text = <<cells[r * image.w + c + 1].glyph>>
                         /\ d.x = c * FloorOf(6 * rendered.font_size, 10)
                         /\ d.y = r * FloorOf(12 * rendered.font_size, 10)

\* C10 witness: the second call on a converter with colour has returned a
\* grid of several rows and the renderer has drawn it, after a first call
\* on another image
C10_SecondCallRendered ==
  /\ pc = "rendered"
  /\ ncalls = 2
  /\ conv.use_color
  /\ image.h >= 2 /\ image.w >= 2
  /\ path = "color.png"
  /\ Len(rendered.draws) = image.w * image.h

(***************************************************************************)
(* What a conversion leaves on the converter (under Spec).                 *)
(***************************************************************************)
\* the construction-time configuration of a converter
Config(self) ==
  [width |-> self.width, use_color |-> self.use_color,
   char_set_name |-> self.char_set_name, characters |-> self.characters,
   aspect_ratio_correction |-> self.aspect_ratio_correction]

\* the text of one conversion as a function of the configuration and the
\* image alone
TextOf(self, img) ==
  LET resized == _resize_image(self, img)
      enhanced == EnhanceSharpness(EnhanceBrightness(resized))
  IN IF self.use_color
     THEN _pixels_to_ascii(self, enhanced,
                           SomeColor(_boost_saturation(_capture_color_data(enhanced), 3)))
     ELSE _pixels_to_ascii(self, _convert_to_grayscale(resized), NoColor)

\* C11 as stated: after convert_image returns or fails the converter holds
\* only its construction-time configuration, no data of any conversion.
C11_OnlyConfigurationSurvives ==
  pc \in {"returned", "rendered", "failed"} =>
    /\ conv = NewConverter(conv.width, conv.char_set_name, conv.use_color)
    /\ conv._last_color_data = NoColor

\* C11 amended: no step of a conversion changes the configuration; the one
\* thing a conversion leaves on the converter is _last_color_data, set when
\* the call returns to the colour field of that call (None without colour);
\* a call that fails leaves the converter exactly as it was, the field of
\* an earlier call included; and the text a call returns is determined by
\* the configuration and the image alone.
C11_ConfigurationFixedFieldReplaced ==
  [][conv.constructed =>
       /\ Config(conv') = Config(conv)
       /\ IF pc = "converted"
          THEN /\ pc' = "returned"
               /\ conv'.has_last_color_data
               /\ conv'._last_color_data = color_data
          ELSE conv' = conv
       /\ pc' = "returned" => ascii_art' = TextOf(conv, Files[path])]_vars

\* C11 witness: a second call has failed on a converter that still holds
\* the colour field of the first call
C11_FailedCallKeepsEarlierField ==
  /\ pc = "failed"
  /\ ncalls = 2
  /\ raised.at = "_load_image"
  /\ conv._last_color_data.some
  /\ Len(conv._last_color_data.data) >= 1

(***************************************************************************)
(* render_to_image on grids of glyphs, plain and coloured.                 *)
(***************************************************************************)
MaxRows == 5
MaxCols == 5
MaxFontSize == 10

GridGlyph(r, c) == Simple[((r + c) % Len(Simple)) + 1]
GridColour(r, c) == <<(51 * r) % 256, (85 * c) % 256, 255 - 51 * ((r + c) % 6)>>

\* the colour field of a grid, row-major
GridField(rows, cols) ==
  [k \in 1..(rows * cols) |-> GridColour(((k - 1) \div cols) + 1, ((k - 1) % cols) + 1)]

\* the text _pixels_to_ascii builds for the grid: bare glyphs, or every
\* glyph between its colour code and the reset code
GridText(rows, cols, colored) ==
  LET one(r, c) ==
        IF colored
        THEN _rgb_to_ansi(GridColour(r, c)[1], GridColour(r, c)[2], GridColour(r, c)[3])
               \o <<GridGlyph(r, c)>> \o reset_code
        ELSE <<GridGlyph(r, c)>>
  IN JoinLines([r \in 1..rows |-> Concat([c \in 1..cols |-> one(r, c)])])

InitRender ==
  /\ \E rows \in 1..MaxRows, cols \in 1..MaxCols, font_size \in 1..MaxFontSize,
        colored \in BOOLEAN :
       /\ arg = [rows |-> rows, cols |-> cols, font_size |-> font_size, colored |-> colored]
       /\ ascii_art = GridText(rows, cols, colored)
       /\ color_data = IF colored THEN SomeColor(GridField(rows, cols)) ELSE NoColor
  /\ conv = NewConverter(DEFAULT_WIDTH, DEFAULT_CHAR_SET, TRUE)
  /\ pc = "call"
  /\ path = ""
  /\ image = NoImage
  /\ calls = <<>>
  /\ raised = NoError
  /\ rendered = NoRender
  /\ ncalls = 0

RenderCall ==
  /\ pc = "call"
  /\ rendered' = render_to_image(ascii_art, arg.font_size, color_data)
  /\ pc' = "done"
  /\ UNCHANGED <<conv, path, image, color_data, ascii_art, calls, raised, ncalls, arg>>

SpecRender == InitRender /\ [][RenderCall]_vars

(***************************************************************************)
(* The canvas of the renderer (under SpecRender).                          *)
(***************************************************************************)
\* C12 as stated: the canvas is round(cols * fontSize * 0.6) wide and
\* round(rows * fontSize * 1.2) high, cols and rows counted on the
\* escape-free text, the same for coloured and plain text.
C12_CanvasIsRounded ==
  pc = "done" =>
    /\ rendered.w = RoundHalfEven(arg.cols * arg.font_size * 6, 10)
    /\ rendered.h = RoundHalfEven(arg.rows * arg.font_size * 12, 10)

\* C12 amended: the canvas is int(cols * (fontSize * 0.6)) wide and
\* int(rows * (fontSize * 1.2)) high, the double products truncated toward
\* zero, cols and rows being the glyphs per row and the rows of the grid
\* whatever colour escapes the text carries.
C12_CanvasIsTruncated ==
  pc = "done" =>
    /\ rendered.w = FloorOf(arg.cols * arg.font_size * 6, 10)
                      - CanvasShort(arg.cols, arg.font_size)
    /\ rendered.h = FloorOf(arg.rows * arg.font_size * 12, 10)
                      - CanvasShort(arg.rows, arg.font_size)

\* C12 witness: a coloured grid has been rendered whose canvas is smaller
\* both ways than the rounded one
C12_ColouredCanvasBelowRounded ==
  /\ pc = "done"
  /\ arg.colored
  /\ Len(ascii_art) > arg.rows * arg.cols + arg.rows - 1
  /\ rendered.w < RoundHalfEven(arg.cols * arg.font_size * 6, 10)
  /\ rendered.h < RoundHalfEven(arg.rows * arg.font_size * 12, 10)

(***************************************************************************)
(* main.py: the command line around one converter.                         *)
(***************************************************************************)
\* the attributes of class AsciiConverter (converter.py, lines 11-412)
Attributes ==
  {"__init__", "convert_image", "_load_image", "_resize_image", "_capture_color_data",
   "_boost_saturation", "_rgb_to_ansi", "_convert_to_grayscale", "_pixels_to_ascii",
   "render_to_image"}

\* argparse: --char-set takes the keys of constants.CHAR_SETS, --width any
\* integer, --output a path or nothing (""), the two flags are booleans
Choices == DOMAIN CHAR_SETS \ {"two"}
ArgWidths == ConvWidths \cup {DEFAULT_WIDTH}
Outputs == {"", "out.txt"}

\* lines 66-68: the parsed arguments, and the local width
InitMain ==
  /\ \E image_path \in Paths, width \in ArgWidths, char_set \in Choices,
        output \in Outputs, render_image \in BOOLEAN, color \in BOOLEAN :
       arg = [image_path |-> image_path, args_width |-> width, char_set |-> char_set,
              output |-> output, render_image |-> render_image, color |-> color,
              width |-> width]
  /\ conv = NoConverter
  /\ pc = "main"
  /\ image = NoImage
  /\ ascii_art = <<>>
  /\ Unused

\* lines 69-83: with --render-image and no --width, 30% of the image width
AutoWidth ==
  /\ pc = "main"
  /\ arg' = [arg EXCEPT !.width =
               IF arg.args_width = DEFAULT_WIDTH /\ arg.render_image
               THEN IF arg.image_path \in DOMAIN Files
                    THEN Min(Trunc(Files[arg.image_path].w * 3, 10), 500)
                    ELSE DEFAULT_WIDTH
               ELSE arg.args_width]
  /\ pc' = "width_set"
  /\ UNCHANGED <<conv, path, image, color_data, ascii_art, calls, raised, rendered, ncalls>>

\* line 87
Construct ==
  /\ pc = "width_set"
  /\ IF arg.char_set \in DOMAIN CHAR_SETS
     THEN /\ conv' = NewConverter(arg.width, arg.char_set, arg.color)
          /\ pc' = "constructed"
          /\ raised' = raised
     ELSE /\ raised' = [kind |-> "ValueError", at |-> "__init__"]
          /\ pc' = "caught"
          /\ conv' = conv
  /\ UNCHANGED <<path, image, color_data, ascii_art, calls, rendered, ncalls, arg>>

\* line 92: converter.is_animated_gif(args.image_path); the lookup of a
\* name the class does not define raises AttributeError, and the statements
\* of lines 94-161 run only from "checked"
CheckAnimated ==
  /\ pc = "constructed"
  /\ IF "is_animated_gif" \in Attributes
     THEN /\ pc' = "checked"
          /\ raised' = raised
     ELSE /\ raised' = [kind |-> "AttributeError", at |-> "is_animated_gif"]
          /\ pc' = "caught"
  /\ UNCHANGED <<conv, path, image, color_data, ascii_art, calls, rendered, ncalls, arg>>

\* lines 163-165: except Exception: print the error, sys.exit(1)
ErrorExit ==
  /\ pc = "caught"
  /\ pc' = "exit1"
  /\ UNCHANGED <<conv, path, image, color_data, ascii_art, calls, raised, rendered, ncalls, arg>>

NextMain ==
  \/ AutoWidth
  \/ Construct
  \/ CheckAnimated
  \/ ErrorExit

SpecMain == InitMain /\ [][NextMain]_vars

(***************************************************************************)
(* The exits of main (under SpecMain).                                     *)
(***************************************************************************)
\* C13: a run on a readable image with valid options does not reach the
\* error exit (status 1), and the error exit is reached only from a failure
\* of construction, loading or conversion.
C13_ErrorExitOnlyOnFailure ==
  /\ (/\ arg.image_path \in DOMAIN Files
      /\ arg.args_width >= 1
      /\ arg.char_set \in Choices) => pc # "exit1"
  /\ pc = "exit1" =>
       raised.at \in {"__init__", "_load_image", "_resize_image", "_pixels_to_ascii"}

====
